---- MODULE Spec2Model ----
(***************************************************************************)
(* Model of mapentity/models.py (BaseMapEntityMixin, LogEntry): the        *)
(* entity-kind -> permission mapping, permission codenames, the map image  *)
(* capture lifecycle (prepare_map_image / delete), the capture size        *)
(* arithmetic and the creator / last_author queries over the audit log.    *)
(*                                                                         *)
(* Python None is the empty tuple and a present value x is <<x>>, so that  *)
(* optional values of any type compare without type errors.                *)
(***************************************************************************)
EXTENDS Integers, Sequences, FiniteSets, TLC

VARIABLES
    rows,              \* database rows: the objects (class, pk) that exist
    nextpk,            \* per class, the next auto-increment primary key
    date_update,       \* object -> value of the DATE_UPDATE_FIELD_NAME attribute
    geom,              \* object -> extent of the geometry in EPSG:3857, or None
    files,             \* file system under MEDIA_ROOT/maps: path -> mtime
    now,               \* wall clock
    log,               \* admin log table, log[i] is the entry with pk = i
    MAP_CAPTURE_SIZE,  \* app_settings['MAP_CAPTURE_SIZE']
    ret                \* the last call: operation, arguments, locals, result

vars == <<rows, nextpk, date_update, geom, files, now, log, MAP_CAPTURE_SIZE, ret>>

None == << >>
Some(x) == <<x>>

(***************************************************************************)
(* Bounds                                                                  *)
(***************************************************************************)
MaxPk == 1            \* primary keys handed out per class
MaxTime == 5          \* clock ticks (one per state-changing call)
MaxLog == 3           \* audit-log entries
MaxLength == 8192     \* longest extent side, in length units
UnitsPerPixel == 32   \* length units per pixel of the zoom-0 tile

(***************************************************************************)
(* Entity kinds and permissions                                            *)
(***************************************************************************)
ENTITY_LAYER == "layer"
ENTITY_LIST == "list"
ENTITY_DATATABLE_LIST == "-drf-list"
ENTITY_FORMAT_LIST == "format_list"
ENTITY_DETAIL == "detail"
ENTITY_MAPIMAGE == "mapimage"
ENTITY_DOCUMENT == "document"
ENTITY_MARKUP == "markup"
ENTITY_CREATE == "add"
ENTITY_UPDATE == "update"
ENTITY_DELETE == "delete"
ENTITY_UPDATE_GEOM == "update_geom"

ENTITY_KINDS ==
    {ENTITY_LAYER, ENTITY_LIST, ENTITY_DATATABLE_LIST, ENTITY_FORMAT_LIST, ENTITY_DETAIL,
     ENTITY_MAPIMAGE, ENTITY_DOCUMENT, ENTITY_MARKUP, ENTITY_CREATE, ENTITY_UPDATE,
     ENTITY_DELETE, ENTITY_UPDATE_GEOM}

ENTITY_PERMISSION_CREATE == "add"
ENTITY_PERMISSION_READ == "read"
ENTITY_PERMISSION_UPDATE == "change"
ENTITY_PERMISSION_DELETE == "delete"
ENTITY_PERMISSION_EXPORT == "export"
ENTITY_PERMISSION_UPDATE_GEOM == "change_geom"

ENTITY_PERMISSIONS ==
    {ENTITY_PERMISSION_CREATE, ENTITY_PERMISSION_READ, ENTITY_PERMISSION_UPDATE,
     ENTITY_PERMISSION_UPDATE_GEOM, ENTITY_PERMISSION_DELETE, ENTITY_PERMISSION_EXPORT}

\* Outcome of a call whose assert statement fails.
AssertionError == "AssertionError"

\* The dict of get_entity_kind_permission.
operations ==
    [k \in ENTITY_KINDS |->
        CASE k = ENTITY_CREATE -> ENTITY_PERMISSION_CREATE
          [] k = ENTITY_UPDATE -> ENTITY_PERMISSION_UPDATE
          [] k = ENTITY_UPDATE_GEOM -> ENTITY_PERMISSION_UPDATE_GEOM
          [] k = ENTITY_DELETE -> ENTITY_PERMISSION_DELETE
          [] k = ENTITY_DETAIL -> ENTITY_PERMISSION_READ
          [] k = ENTITY_LAYER -> ENTITY_PERMISSION_READ
          [] k = ENTITY_LIST -> ENTITY_PERMISSION_READ
          [] k = ENTITY_DATATABLE_LIST -> ENTITY_PERMISSION_READ
          [] k = ENTITY_MARKUP -> ENTITY_PERMISSION_READ
          [] k = ENTITY_FORMAT_LIST -> ENTITY_PERMISSION_EXPORT
          [] k = ENTITY_MAPIMAGE -> ENTITY_PERMISSION_EXPORT
          [] k = ENTITY_DOCUMENT -> ENTITY_PERMISSION_EXPORT]

\* Mutant: the dict lookup without its default, a missing key is rejected.
get_entity_kind_permission_nodefault(entity_kind) ==
    IF entity_kind \in DOMAIN operations THEN operations[entity_kind] ELSE AssertionError

\* Mutant: the export kinds are granted by the read permission.
get_entity_kind_permission_readexport(entity_kind) ==
    LET perm == IF entity_kind \in DOMAIN operations THEN operations[entity_kind]
                ELSE entity_kind
    IN IF perm = ENTITY_PERMISSION_EXPORT /\ entity_kind # perm THEN ENTITY_PERMISSION_READ
       ELSE IF perm \in ENTITY_PERMISSIONS THEN perm ELSE AssertionError

\* operations.get(entity_kind, entity_kind), then the assertion.
get_entity_kind_permission(entity_kind) ==
    LET perm == IF entity_kind \in DOMAIN operations THEN operations[entity_kind]
                ELSE entity_kind
    IN IF perm \in ENTITY_PERMISSIONS THEN perm ELSE AssertionError

(***************************************************************************)
(* Model classes. opts is the class's _meta: app_label, model_name, proxy  *)
(* and, for a proxy, the app label of proxy_for_model._meta.               *)
(***************************************************************************)
\* str.lower() on the app labels in use.
lower(s) ==
    CASE s = "Admin" -> "admin"
      [] s = "Test_App" -> "test_app"
      [] OTHER -> s

AppLabels == {"admin", "Admin", "mapentity", "Test_App"}
ModelNames == {"logentry", "dummymodel"}

\* _meta of the LogEntry proxy class and of the admin class it proxies.
LogEntryMeta ==
    [app_label |-> "mapentity", model_name |-> "logentry", proxy |-> TRUE,
     proxy_for_app_label |-> "admin"]

\* _meta of every class the codename may be asked of.
AllMeta ==
    [app_label : AppLabels, model_name : ModelNames, proxy : {FALSE},
     proxy_for_app_label : {"admin"}]
    \cup [app_label : AppLabels, model_name : ModelNames, proxy : {TRUE},
          proxy_for_app_label : AppLabels]

\* django.contrib.auth.get_permission_codename(action, opts)
auth_get_permission_codename(action, opts) == action \o "_" \o opts.model_name

\* Mutant: a proxy always takes the proxied model's app label.
get_permission_codename_noadmin(opts, entity_kind) ==
    LET perm == get_entity_kind_permission(entity_kind)
        appname == IF opts.proxy THEN lower(opts.proxy_for_app_label)
                   ELSE lower(opts.app_label)
    IN IF perm = AssertionError THEN AssertionError
       ELSE appname \o "." \o auth_get_permission_codename(perm, opts)

get_permission_codename(opts, entity_kind) ==
    LET perm == get_entity_kind_permission(entity_kind)
        appname0 == lower(opts.app_label)
        appname == IF opts.proxy
                   THEN (IF lower(opts.proxy_for_app_label) # "admin"
                         THEN lower(opts.proxy_for_app_label) ELSE appname0)
                   ELSE appname0
    IN IF perm = AssertionError THEN AssertionError
       ELSE appname \o "." \o auth_get_permission_codename(perm, opts)

\* Values handed to get_entity_kind_permission: every kind, every
\* permission, and values that are neither.
KindInputs == ENTITY_KINDS \cup ENTITY_PERMISSIONS \cup {"", "READ", "view", "update_geometry"}

(***************************************************************************)
(* Objects, URLs and paths                                                 *)
(***************************************************************************)
\* The concrete classes whose objects live in the database: one with the
\* DATE_UPDATE_FIELD_NAME attribute, one without it.
ClassMeta ==
    [c \in {"dummymodel", "undatedmodel"} |->
        [app_label |-> "test_app", model_name |-> c, proxy |-> FALSE,
         proxy_for_app_label |-> "admin"]]

Classes == DOMAIN ClassMeta
HasDateUpdateField(c) == c = "dummymodel"

Objects == [cls : Classes, pk : 1..MaxPk]

\* Users and the content types of the classes.
Users == {"alice", "bob"}
ADDITION == 1
CHANGE == 2
DELETION == 3
ActionFlags == {ADDITION, CHANGE, DELETION}

\* ContentType.objects.get_for_model(cls).pk
get_content_type_id(c) == IF c = "dummymodel" THEN 11 ELSE 12

\* cls._entity.url_name(kind): '<app_label>:<model_name>_<kind>'
url_name(c, kind) == ClassMeta[c].app_label \o ":" \o ClassMeta[c].model_name \o "_" \o kind

\* django.urls.reverse: the URL is determined by the url name and the args.
reverse(name, args) == [name |-> name, args |-> args]

get_detail_url(o) == reverse(url_name(o.cls, ENTITY_DETAIL), <<ToString(o.pk)>>)

get_update_url(o) == reverse(url_name(o.cls, ENTITY_UPDATE), <<ToString(o.pk)>>)

\* Mutant: the delete URL is reversed from the update url name.
get_delete_url_update(o) == reverse(url_name(o.cls, ENTITY_UPDATE), <<ToString(o.pk)>>)

get_delete_url(o) == reverse(url_name(o.cls, ENTITY_DELETE), <<ToString(o.pk)>>)

\* os.path.join(MEDIA_ROOT/maps, '%s-%s.png' % (model_name, pk))
get_map_image_path(o) ==
    "maps/" \o ClassMeta[o.cls].model_name \o "-" \o ToString(o.pk) \o ".png"

\* getattr(self, fname).replace(tzinfo=utc), None on AttributeError (the
\* attribute is missing or holds None).
get_date_update(o) == date_update[o]

get_geom(o) == geom[o]

\* helpers.is_file_uptodate(path, date_update): the file exists and was
\* modified after the update date; never up to date without a date.
is_file_uptodate(path, date) ==
    /\ path \in DOMAIN files
    /\ date # None
    /\ files[path] > date[1]

\* Writing a file at path at the current time (Image.save, and the file
\* helpers.capture_map_image leaves behind).
write_file(path) == [p \in DOMAIN files \cup {path} |-> IF p = path THEN now ELSE files[p]]

\* os.unlink(path)
unlink(path) == [p \in DOMAIN files \ {path} |-> files[p]]

(***************************************************************************)
(* Capture size arithmetic. Lengths are whole numbers of a unit chosen so  *)
(* that CIRCUM, the Web Mercator circumference 2*pi*RADIUS, is exactly     *)
(* 256 * UnitsPerPixel units; zoom and size depend on length / CIRCUM      *)
(* only. The arithmetic is exact (rational), not floating point.           *)
(***************************************************************************)
CIRCUM == 256 * UnitsPerPixel

RECURSIVE GCD(_, _)
GCD(a, b) == IF b = 0 THEN a ELSE GCD(b, a % b)

Pow2(n) == 2 ^ n

\* math.ceil(n / d) for n >= 0, d > 0
Ceil(n, d) == (n + d - 1) \div d

\* Least m' >= m with k < 2 * 4^m', i.e. sqrt(k) < 2^(m' + 1/2).
RECURSIVE HalfStep(_, _)
HalfStep(k, m) == IF k \div Pow2(2 * m) < 2 THEN m ELSE HalfStep(k, m + 1)

\* round(math.log(a / b, 2)) for integers a, b > 0: the z with
\* 2^(z - 1/2) <= a/b < 2^(z + 1/2). log2 of a rational is never z + 1/2.
RoundLog2(a, b) ==
    LET g == GCD(a, b)
        p == (a \div g) * (a \div g)
        q == (b \div g) * (b \div g)
    IN IF p >= q THEN HalfStep(p \div q, 0) ELSE 0 - HalfStep(q \div p, 0)

\* Mutant: the zoom is truncated instead of rounded.
RECURSIVE FloorStep(_, _)
FloorStep(k, m) == IF k \div Pow2(2 * m) < 4 THEN m ELSE FloorStep(k, m + 1)

capture_zoom_floor(length, hint_size) ==
    LET g == GCD(CIRCUM * hint_size, 256 * length)
        p == ((CIRCUM * hint_size) \div g) * ((CIRCUM * hint_size) \div g)
        q == ((256 * length) \div g) * ((256 * length) \div g)
    IN IF p >= q THEN FloorStep(p \div q, 0) ELSE 0 - HalfStep(q \div p, 0)

\* length_per_tile = 256 * length / hint_size
\* zoom = round(math.log(CIRCUM / length_per_tile, 2))
capture_zoom(length, hint_size) == RoundLog2(CIRCUM * hint_size, 256 * length)

\* math.ceil(length * 1.1 * 256 * 2 ** zoom / CIRCUM)
capture_size(length, zoom) ==
    IF zoom >= 0 THEN Ceil(length * 11 * 256 * Pow2(zoom), 10 * CIRCUM)
    ELSE Ceil(length * 11 * 256, 10 * CIRCUM * Pow2(0 - zoom))

Max(a, b) == IF a >= b THEN a ELSE b

\* max(extent[2] - extent[0], extent[3] - extent[1])
extent_length(extent) == Max(extent[3] - extent[1], extent[4] - extent[2])

(***************************************************************************)
(* Initial states                                                          *)
(***************************************************************************)
\* Settings values of MAP_CAPTURE_SIZE.
CaptureSizes == {100, 800}

\* Extents (xmin, ymin, xmax, ymax) given to new and edited objects: a point
\* and a box.
SmallExtents == {<<7, 7, 7, 7>>, <<10, 20, 3010, 1020>>}

\* Empty database, empty maps folder.
Init ==
    /\ rows = {}
    /\ nextpk = [c \in Classes |-> 1]
    /\ date_update = [o \in Objects |-> None]
    /\ geom = [o \in Objects |-> None]
    /\ files = << >>
    /\ now = 0
    /\ log = << >>
    /\ MAP_CAPTURE_SIZE \in CaptureSizes
    /\ ret = [op |-> "init"]

\* One saved object with a geometry of any extent, no capture yet.
InitSize ==
    /\ rows = {[cls |-> "dummymodel", pk |-> 1]}
    /\ nextpk = [c \in Classes |-> IF c = "dummymodel" THEN 2 ELSE 1]
    /\ date_update = [o \in Objects |-> IF o \in rows THEN Some(0) ELSE None]
    /\ \E w \in 0..MaxLength, h \in {0, MaxLength \div 3} :
          geom = [o \in Objects |-> IF o \in rows THEN Some(<<0, 0, w, h>>) ELSE None]
    /\ files = << >>
    /\ now = 1
    /\ log = << >>
    /\ MAP_CAPTURE_SIZE \in CaptureSizes
    /\ ret = [op |-> "init"]

(***************************************************************************)
(* Object lifecycle                                                        *)
(***************************************************************************)
\* Model.objects.create(...): a new row with the next pk; the update date
\* is set when the class has the field.
Create(c, g) ==
    /\ now < MaxTime
    /\ nextpk[c] <= MaxPk
    /\ LET o == [cls |-> c, pk |-> nextpk[c]]
       IN /\ rows' = rows \cup {o}
          /\ nextpk' = [nextpk EXCEPT ![c] = @ + 1]
          /\ date_update' = [date_update EXCEPT
                                ![o] = IF HasDateUpdateField(c) THEN Some(now) ELSE None]
          /\ geom' = [geom EXCEPT ![o] = g]
          /\ ret' = [op |-> "create", obj |-> o]
    /\ now' = now + 1
    /\ UNCHANGED <<files, log, MAP_CAPTURE_SIZE>>

\* obj.save() of an existing object, possibly with a new geometry.
Save(o, g) ==
    /\ now < MaxTime
    /\ o \in rows
    /\ date_update' = [date_update EXCEPT
                          ![o] = IF HasDateUpdateField(o.cls) THEN Some(now) ELSE None]
    /\ geom' = [geom EXCEPT ![o] = g]
    /\ ret' = [op |-> "save", obj |-> o]
    /\ now' = now + 1
    /\ UNCHANGED <<rows, nextpk, files, log, MAP_CAPTURE_SIZE>>

\* Mutant: the image is regenerated without looking at the stored one.
prepare_uptodate_never(o) == FALSE

\* The guard of prepare_map_image.
prepare_uptodate(o) == is_file_uptodate(get_map_image_path(o), get_date_update(o))

\* The locals of prepare_map_image once the image is known to be stale.
prepare_locals(o) ==
    IF get_geom(o) = None
    THEN [length |-> None, zoom |-> None, size |-> MAP_CAPTURE_SIZE, blank |-> TRUE]
    ELSE LET length == extent_length(get_geom(o)[1])
         IN IF length # 0
            THEN LET hint_size == MAP_CAPTURE_SIZE
                     zoom == capture_zoom(length, hint_size)
                 IN [length |-> Some(length), zoom |-> Some(zoom),
                     size |-> capture_size(length, zoom), blank |-> FALSE]
            ELSE [length |-> Some(length), zoom |-> None,
                  size |-> MAP_CAPTURE_SIZE, blank |-> FALSE]

prepare_map_image(o) ==
    /\ now < MaxTime
    /\ o \in rows
    /\ LET path == get_map_image_path(o)
       IN IF prepare_uptodate(o)
          THEN /\ files' = files
               /\ ret' = [op |-> "prepare_map_image", obj |-> o, value |-> FALSE,
                          length |-> None, zoom |-> None, size |-> None,
                          blank |-> FALSE, capture |-> None]
          ELSE LET l == prepare_locals(o)
               IN /\ files' = write_file(path)
                  /\ ret' = [op |-> "prepare_map_image", obj |-> o, value |-> TRUE,
                             length |-> l.length, zoom |-> l.zoom, size |-> Some(l.size),
                             blank |-> l.blank,
                             capture |-> IF l.blank THEN None
                                         ELSE Some([url |-> get_detail_url(o),
                                                    path |-> path, size |-> l.size])]
    /\ now' = now + 1
    /\ UNCHANGED <<rows, nextpk, date_update, geom, log, MAP_CAPTURE_SIZE>>

\* Mutant: the row is deleted and the capture is left behind.
delete_files_keep(path) == files

\* The file system after the first three lines of delete().
delete_files(path) == IF path \in DOMAIN files THEN unlink(path) ELSE files

delete(o) ==
    /\ now < MaxTime
    /\ o \in rows
    /\ LET image_path == get_map_image_path(o)
       IN /\ files' = delete_files(image_path)
          /\ ret' = [op |-> "delete", obj |-> o, unlinked |-> image_path \in DOMAIN files]
    /\ rows' = rows \ {o}
    /\ date_update' = [date_update EXCEPT ![o] = None]
    /\ geom' = [geom EXCEPT ![o] = None]
    /\ now' = now + 1
    /\ UNCHANGED <<nextpk, log, MAP_CAPTURE_SIZE>>

\* href="#", the link that leads nowhere.
NoHref == [name |-> "#", args |-> << >>]

\* Mutant: the delete link is shown whatever can_delete says.
form_delete_link_always(o, can_delete) ==
    [class |-> "btn btn-danger delete", href |-> get_delete_url(o)]

\* The delete link of the form's action bar.
form_delete_link(o, can_delete) ==
    IF can_delete
    THEN [class |-> "btn btn-danger delete", href |-> get_delete_url(o)]
    ELSE [class |-> "btn disabled delete", href |-> NoHref]

\* MapEntityForm(instance=o) and MapEntityForm(instance=o, can_delete=...):
\* passed is None when the keyword is left out.
MapEntityForm(o, passed) ==
    /\ o \in rows
    /\ LET can_delete == IF passed = None THEN TRUE ELSE passed[1]
       IN ret' = [op |-> "MapEntityForm", obj |-> o, passed |-> passed,
                  can_delete |-> can_delete, link |-> form_delete_link(o, can_delete)]
    /\ UNCHANGED <<rows, nextpk, date_update, geom, files, now, log, MAP_CAPTURE_SIZE>>

Next ==
    \/ \E c \in Classes, g \in {None} \cup {Some(e) : e \in SmallExtents} : Create(c, g)
    \/ \E o \in Objects, g \in {None} \cup {Some(e) : e \in SmallExtents} : Save(o, g)
    \/ \E o \in Objects : prepare_map_image(o)
    \/ \E o \in Objects : delete(o)

Spec == Init /\ [][Next]_vars

\* Forms built for the objects that exist.
NextForm ==
    \/ \E c \in Classes, g \in {None} \cup {Some(e) : e \in SmallExtents} : Create(c, g)
    \/ \E o \in Objects : delete(o)
    \/ \E o \in Objects, passed \in {None, Some(TRUE), Some(FALSE)} : MapEntityForm(o, passed)

SpecForm == Init /\ [][NextForm]_vars

\* The capture of one object of any extent.
NextSize == \E o \in Objects : prepare_map_image(o)

SpecSize == InitSize /\ [][NextSize]_vars

(***************************************************************************)
(* Permission calls                                                        *)
(***************************************************************************)
CallGetEntityKindPermission(entity_kind) ==
    /\ ret' = [op |-> "get_entity_kind_permission", arg |-> entity_kind,
               value |-> get_entity_kind_permission(entity_kind)]
    /\ UNCHANGED <<rows, nextpk, date_update, geom, files, now, log, MAP_CAPTURE_SIZE>>

CallGetPermissionCodename(opts, entity_kind) ==
    /\ ret' = [op |-> "get_permission_codename", opts |-> opts, arg |-> entity_kind,
               value |-> get_permission_codename(opts, entity_kind)]
    /\ UNCHANGED <<rows, nextpk, date_update, geom, files, now, log, MAP_CAPTURE_SIZE>>

NextPerm ==
    \/ \E k \in KindInputs : CallGetEntityKindPermission(k)
    \/ \E opts \in AllMeta, k \in KindInputs : CallGetPermissionCodename(opts, k)

SpecPerm == Init /\ [][NextPerm]_vars

(***************************************************************************)
(* Audit log                                                               *)
(***************************************************************************)
\* The objects the log speaks of, existing or not; object_id is a text
\* column and holds str(pk).
LogObjects == [cls : Classes, pk : {1, 2}]
LogObjectIds == {ToString(o.pk) : o \in LogObjects}

\* LogEntry.objects.log_action(...): a new entry with the next pk.
LogAction(user, content_type_id, object_id, action_flag) ==
    /\ Len(log) < MaxLog
    /\ log' = Append(log, [user |-> user, content_type_id |-> content_type_id,
                           object_id |-> object_id, action_flag |-> action_flag])
    /\ ret' = [op |-> "log_action", pk |-> Len(log) + 1]
    /\ UNCHANGED <<rows, nextpk, date_update, geom, files, now, MAP_CAPTURE_SIZE>>

\* queryset.order_by(<pk column>).last() on a set of rows keyed by pk: the
\* row with the greatest pk, None on an empty queryset.
RECURSIVE last_by_pk(_, _)
last_by_pk(pks, best) ==
    IF pks = {} THEN best
    ELSE LET pk == CHOOSE x \in pks : TRUE
         IN last_by_pk(pks \ {pk}, IF best = None \/ pk > best[1] THEN Some(pk) ELSE best)

\* Mutant: the action flag is left out of the filter.
creator_anyflag(o) ==
    LET qs == {pk \in DOMAIN log :
                  /\ log[pk].content_type_id = get_content_type_id(o.cls)
                  /\ log[pk].object_id = ToString(o.pk)}
        log_entry == last_by_pk(qs, None)
    IN IF log_entry = None THEN None ELSE Some(log[log_entry[1]].user)

creator(o) ==
    LET qs == {pk \in DOMAIN log :
                  /\ log[pk].content_type_id = get_content_type_id(o.cls)
                  /\ log[pk].object_id = ToString(o.pk)
                  /\ log[pk].action_flag = ADDITION}
        log_entry == last_by_pk(qs, None)
    IN IF log_entry = None THEN None ELSE Some(log[log_entry[1]].user)

\* The join of authors: one (user, logentry) row per log entry that passes
\* the filter; the rows are identified by the entry's pk.
authors_join(o) ==
    {pk \in DOMAIN log :
        /\ log[pk].content_type_id = get_content_type_id(o.cls)
        /\ log[pk].object_id = ToString(o.pk)}

authors(o) == {log[pk].user : pk \in authors_join(o)}

\* Mutant: the ordering joins the log again, over every entry of the authors.
last_author_anyentry(o) ==
    LET joined == {pk \in DOMAIN log : log[pk].user \in authors(o)}
        row == last_by_pk(joined, None)
    IN IF row = None THEN None ELSE Some(log[row[1]].user)

\* authors.order_by('logentry__pk').last(): the ordering reuses the join of
\* the filter.
last_author(o) ==
    LET row == last_by_pk(authors_join(o), None)
    IN IF row = None THEN None ELSE Some(log[row[1]].user)

NextLog ==
    \E user \in Users, c \in Classes, object_id \in LogObjectIds, flag \in ActionFlags :
        LogAction(user, get_content_type_id(c), object_id, flag)

SpecLog == Init /\ [][NextLog]_vars

(***************************************************************************)
(* Properties                                                              *)
(***************************************************************************)

\* C1: every entity kind maps to a member of ENTITY_PERMISSIONS, the
\* assertion holds, and the permission is the one the kind calls for.
C1_KindPermission ==
    (ret.op = "get_entity_kind_permission" /\ ret.arg \in ENTITY_KINDS) =>
        /\ ret.value \in ENTITY_PERMISSIONS
        /\ ret.value # AssertionError
        /\ ret.arg = "add" => ret.value = "add"
        /\ ret.arg = "update" => ret.value = "change"
        /\ ret.arg = "update_geom" => ret.value = "change_geom"
        /\ ret.arg = "delete" => ret.value = "delete"
        /\ ret.arg \in {"detail", "layer", "list", "-drf-list", "markup"} => ret.value = "read"
        /\ ret.arg \in {"format_list", "mapimage", "document"} => ret.value = "export"
        /\ ret.arg \in {"add", "update", "update_geom", "delete", "detail", "layer", "list",
                        "-drf-list", "markup", "format_list", "mapimage", "document"}

C1_Witness ==
    /\ ret.op = "get_entity_kind_permission"
    /\ ret.arg = "mapimage"
    /\ ret.value = "export"

\* The app label the codename of the class with these opts starts with.
C2_App(opts) ==
    IF ~opts.proxy THEN lower(opts.app_label)
    ELSE IF lower(opts.proxy_for_app_label) = "admin" THEN lower(opts.app_label)
    ELSE lower(opts.proxy_for_app_label)

\* C2: the codename is '<app>.<perm>_<model_name>', <app> being the model's
\* lower-cased app label, or for a proxy the proxied model's unless that is
\* 'admin'; LogEntry with kind 'list' yields 'mapentity.read_logentry'.
C2_Codename ==
    (ret.op = "get_permission_codename"
        /\ get_entity_kind_permission(ret.arg) # AssertionError) =>
        /\ ret.value =
              C2_App(ret.opts) \o "." \o get_entity_kind_permission(ret.arg) \o "_"
                  \o ret.opts.model_name
        /\ (ret.opts = LogEntryMeta /\ ret.arg = "list") => ret.value = "mapentity.read_logentry"
        /\ (ret.opts.proxy /\ ret.opts.proxy_for_app_label = "Test_App"
               /\ ret.opts.model_name = "dummymodel" /\ ret.arg = "update")
              => ret.value = "test_app.change_dummymodel"

C2_Witness ==
    /\ ret.op = "get_permission_codename"
    /\ ret.opts = LogEntryMeta
    /\ ret.arg = "list"
    /\ ret.value = "mapentity.read_logentry"

\* The log entries that speak of object o.
EntriesOf(o) ==
    {pk \in DOMAIN log :
        /\ log[pk].content_type_id = get_content_type_id(o.cls)
        /\ log[pk].object_id = ToString(o.pk)}

\* The user of the entry with the highest pk in a set of entries, if any.
UserOfHighest(pks) ==
    IF pks = {} THEN None
    ELSE Some(log[CHOOSE pk \in pks : \A other \in pks : other <= pk].user)

\* C3: the creator is the user of the ADDITION entry with the highest pk
\* among the entries of the object, None without such an entry.
C3_Creator ==
    \A o \in LogObjects :
        creator(o) = UserOfHighest({pk \in EntriesOf(o) : log[pk].action_flag = ADDITION})

\* Two additions of the object by different users, then a change of it and
\* entries of other objects.
C3_Witness ==
    \E o \in LogObjects :
        /\ Cardinality({pk \in EntriesOf(o) : log[pk].action_flag = ADDITION}) >= 1
        /\ Len(log) = MaxLog
        /\ log[Len(log)].action_flag # ADDITION
        /\ log[Len(log)].user # log[1].user
        /\ Len(log) \in EntriesOf(o)
        /\ creator(o) = Some(log[1].user)

\* C4: the last author is the user of the entry with the highest pk among
\* the entries of the object, whatever their action flag, None without one.
C4_LastAuthor ==
    \A o \in LogObjects : last_author(o) = UserOfHighest(EntriesOf(o))

\* The last author's own later entry on another object leaves the last
\* author of this object alone.
C4_Witness ==
    \E o \in LogObjects :
        /\ Len(log) >= 3
        /\ 1 \in EntriesOf(o)
        /\ 2 \in EntriesOf(o)
        /\ 3 \notin EntriesOf(o)
        /\ log[1].user = log[3].user
        /\ log[2].user # log[1].user
        /\ last_author(o) = Some(log[2].user)

\* What every call of prepare_map_image does, whatever the object.
C5_Call ==
    (ret'.op = "prepare_map_image" /\ now' # now) =>
        LET o == ret'.obj
            path == get_map_image_path(o)
            uptodate == is_file_uptodate(path, get_date_update(o))
        IN /\ uptodate => /\ ret'.value = FALSE
                          /\ files' = files
                          /\ ret'.capture = None
                          /\ ~ret'.blank
           /\ ~uptodate => /\ ret'.value = TRUE
                           /\ path \in DOMAIN files'
                           /\ files'[path] = now
                           /\ (ret'.capture = None) = (get_geom(o) = None)
                           /\ ret'.capture # None => ret'.capture[1].path = path

\* Calls that are no save or delete of o leave an up-to-date image up to date.
C5_Stable ==
    \A o \in Objects :
        (prepare_uptodate(o) /\ ~(ret'.op \in {"save", "delete", "create"} /\ ret'.obj = o))
            => prepare_uptodate(o)'

C6_Formula ==
    LET length == ret.length[1]
        size == ret.size[1]
        hint == MAP_CAPTURE_SIZE
    IN IF length = 0
       THEN ret.zoom = None /\ size = hint
       ELSE /\ ret.zoom # None
            /\ LET zoom == ret.zoom[1]
               IN IF zoom >= 0
                  THEN /\ 10 * CIRCUM * (size - 1) < length * 11 * 256 * Pow2(zoom)
                       /\ length * 11 * 256 * Pow2(zoom) <= 10 * CIRCUM * size
                  ELSE /\ 10 * CIRCUM * Pow2(0 - zoom) * (size - 1) < length * 11 * 256
                       /\ length * 11 * 256 <= 10 * CIRCUM * Pow2(0 - zoom) * size
            \* 1.1 * hint / sqrt(2) <= size
            /\ 200 * size * size >= 121 * hint * hint

IsCapture == ret.op = "prepare_map_image" /\ ret.capture # None

\* C6 as stated: the size is within a factor sqrt(2) of 1.1 * hint.
C6_AsStated ==
    IsCapture =>
        /\ ret.capture[1].size = ret.size[1]
        /\ C6_Formula
        /\ ret.length[1] # 0 =>
              100 * ret.size[1] * ret.size[1] <= 242 * MAP_CAPTURE_SIZE * MAP_CAPTURE_SIZE

\* C6, amended: the size is the ceiling of a value within a factor sqrt(2)
\* of 1.1 * hint, so it is at least 1.1 * hint / sqrt(2) and less than
\* 1.1 * hint * sqrt(2) + 1.
C6_Amended ==
    IsCapture =>
        /\ ret.capture[1].size = ret.size[1]
        /\ C6_Formula
        /\ ret.length[1] # 0 =>
              100 * (ret.size[1] - 1) * (ret.size[1] - 1)
                  < 242 * MAP_CAPTURE_SIZE * MAP_CAPTURE_SIZE

\* A capture whose size was rounded up past 1.1 * hint * sqrt(2).
C6_Witness ==
    /\ IsCapture
    /\ ret.zoom # None
    /\ 100 * ret.size[1] * ret.size[1] > 242 * MAP_CAPTURE_SIZE * MAP_CAPTURE_SIZE

C8_Delete ==
    [][(ret'.op = "delete" /\ now' # now) =>
          LET o == ret'.obj
              path == get_map_image_path(o)
          IN /\ o \in rows
             /\ rows' = rows \ {o}
             /\ path \notin DOMAIN files'
             /\ ret'.unlinked = (path \in DOMAIN files)
             /\ DOMAIN files' = DOMAIN files \ {path}
             /\ \A p \in DOMAIN files' : files'[p] = files[p]]_vars

\* An object deleted with its image while another object's image stays.
C8_Witness ==
    /\ ret.op = "delete"
    /\ ret.unlinked
    /\ DOMAIN files # {}

\* C9: a value that is no entity kind comes back unchanged when it is a
\* permission and fails the assertion otherwise; the function is idempotent
\* on what it accepts.
C9_NonKind ==
    ret.op = "get_entity_kind_permission" =>
        /\ ret.arg \notin ENTITY_KINDS =>
              IF ret.arg \in {"read", "change", "change_geom", "export"}
              THEN ret.value = ret.arg
              ELSE ret.value = AssertionError
        /\ ret.value # AssertionError => get_entity_kind_permission(ret.value) = ret.value

C9_Witness ==
    /\ ret.op = "get_entity_kind_permission"
    /\ ret.arg = "change_geom"
    /\ ret.value = "change_geom"

====
